---------------------------- MODULE Spec2Model ----------------------------
(***************************************************************************)
(* A model of scripts/generate-maps.py (and of generate-maps-full.py,      *)
(* which shares the parser, the name transforms and the deduplication      *)
(* loops and differs only in the text it renders).                         *)
(*                                                                         *)
(* Python strings are TLA+ strings; a character is a string of length 1.   *)
(* The alphabet is TAB plus printable ASCII, the backquote left out.  A    *)
(* line of the input file is held without its line terminator: the         *)
(* terminator is whitespace, so strip() removes it, and it can be part of  *)
(* neither the four-space prefix nor the separator " -> " that the raw     *)
(* line is tested for.                                                     *)
(***************************************************************************)
EXTENDS Integers, Sequences, FiniteSets, TLC

VARIABLES
    pc,                  \* position of main(): start, parse, generate, done, exit, crashed
                         \* (and ident, ident_done for a call of to_java_identifier alone,
                         \* const, const_done for a call of to_java_constant_name alone)
    input_exists,        \* os.path.exists(INPUT_FILE)
    content,             \* the lines of the input file (local, or as downloaded)
    idx,                 \* index of the next line the parse loop reads
    current_class_name,  \* "" models None (both are falsy; "" is never a parsed name)
    mappings,            \* class name -> [obf, fields, methods]
    out_exists,          \* os.path.exists(OUTPUT_ROOT_DIR)
    out_dirs,            \* directories below the output root
    out_files,           \* the files below the output root: [path, content]
    class_idx,           \* index of the next class the generation loop visits
    file_count,          \* main's file_count
    id_in,               \* the argument of a name transform called alone
    id_out               \* what the call returned

vars == <<pc, input_exists, content, idx, current_class_name, mappings,
          out_exists, out_dirs, out_files, class_idx, file_count,
          id_in, id_out>>

----------------------------------------------------------------------------
(* Bounds of the model *)

MaxLines == 3

MaxMembers == 3

MaxIdLen == 3

MaxConstLen == 4

----------------------------------------------------------------------------
(* Characters *)

LowerLetters == "abcdefghijklmnopqrstuvwxyz"

UpperLetters == "ABCDEFGHIJKLMNOPQRSTUVWXYZ"

DigitChars == "0123456789"

\* The alphabet in code point order: TAB (9), then 32..126 without the
\* backquote (96), which a TLA+ string literal cannot hold.
AsciiTable ==
    "\t !\"#$%&'()*+,-./0123456789:;<=>?@ABCDEFGHIJKLMNOPQRSTUVWXYZ[\\]^_abcdefghijklmnopqrstuvwxyz{|}~"

\* s[i-1:i]: the character at position i, "" beyond the end
CharAt(s, i) == IF i \in 1..Len(s) THEN SubSeq(s, i, i) ELSE ""

CharsOf(s) == { CharAt(s, i) : i \in 1..Len(s) }

\* Position of character c in table t (0 when absent).
IndexIn(t, c) ==
    IF \E i \in 1..Len(t) : CharAt(t, i) = c
    THEN CHOOSE i \in 1..Len(t) : CharAt(t, i) = c
    ELSE 0

\* ord(c), up to a monotone renumbering.
Ord(c) == IndexIn(AsciiTable, c)

\* [a-z], [A-Z], [0-9] and str.isdigit on the alphabet
IsLower(c) == IndexIn(LowerLetters, c) > 0

IsUpper(c) == IndexIn(UpperLetters, c) > 0

IsDigit(c) == IndexIn(DigitChars, c) > 0

\* the character class [a-zA-Z0-9_]
IsWordChar(c) == IsLower(c) \/ IsUpper(c) \/ IsDigit(c) \/ c = "_"

\* whitespace (\s, and what str.strip removes)
IsSpace(c) == c = " " \/ c = "\t"

\* str.upper on one character
UpperChar(c) ==
    IF IsLower(c) THEN CharAt(UpperLetters, IndexIn(LowerLetters, c)) ELSE c

----------------------------------------------------------------------------
(* Python string methods *)

RECURSIVE upper(_)
upper(s) ==
    IF Len(s) = 0 THEN ""
    ELSE UpperChar(CharAt(s, 1)) \o upper(SubSeq(s, 2, Len(s)))

startswith(s, p) == Len(s) >= Len(p) /\ SubSeq(s, 1, Len(p)) = p

endswith(s, p) == Len(s) >= Len(p) /\ SubSeq(s, Len(s) - Len(p) + 1, Len(s)) = p

\* s.find(sep) + 1: the first position where sep occurs in s, 0 when it does not
find(s, sep) ==
    LET hits == { i \in 1..(Len(s) - Len(sep) + 1) : SubSeq(s, i, i + Len(sep) - 1) = sep }
    IN IF hits = {} THEN 0 ELSE CHOOSE i \in hits : \A j \in hits : i <= j

\* s.rfind(sep) + 1
rfind(s, sep) ==
    LET hits == { i \in 1..(Len(s) - Len(sep) + 1) : SubSeq(s, i, i + Len(sep) - 1) = sep }
    IN IF hits = {} THEN 0 ELSE CHOOSE i \in hits : \A j \in hits : i >= j

\* sep in s
contains(s, sep) == find(s, sep) > 0

\* s.strip()
strip(s) ==
    LET keep == { i \in 1..Len(s) : ~IsSpace(CharAt(s, i)) }
    IN IF keep = {} THEN ""
       ELSE SubSeq(s, CHOOSE i \in keep : \A j \in keep : i <= j,
                      CHOOSE i \in keep : \A j \in keep : i >= j)

\* s.rstrip(":")
RECURSIVE rstrip_colon(_)
rstrip_colon(s) ==
    IF Len(s) > 0 /\ CharAt(s, Len(s)) = ":"
    THEN rstrip_colon(SubSeq(s, 1, Len(s) - 1))
    ELSE s

\* s.split(sep): every occurrence, left to right
RECURSIVE split(_, _)
split(s, sep) ==
    LET i == find(s, sep)
    IN IF i = 0 THEN <<s>>
       ELSE <<SubSeq(s, 1, i - 1)>> \o split(SubSeq(s, i + Len(sep), Len(s)), sep)

\* s.split(sep, 1): at most one split, at the first occurrence
split_once(s, sep) ==
    LET i == find(s, sep)
    IN IF i = 0 THEN <<s>>
       ELSE <<SubSeq(s, 1, i - 1), SubSeq(s, i + Len(sep), Len(s))>>

\* s.split(sep)[-1] and s.rsplit(sep, 1)[-1]: what follows the last sep
last_part(s, sep) ==
    LET i == rfind(s, sep)
    IN IF i = 0 THEN s ELSE SubSeq(s, i + Len(sep), Len(s))

\* s.replace(old, new)
RECURSIVE replace(_, _, _)
replace(s, old, new) ==
    LET i == find(s, old)
    IN IF i = 0 THEN s
       ELSE SubSeq(s, 1, i - 1) \o new \o replace(SubSeq(s, i + Len(old), Len(s)), old, new)

\* a < b on Python strings: lexicographic by code point
str_less(a, b) ==
    LET n == IF Len(a) < Len(b) THEN Len(a) ELSE Len(b)
        diff == { i \in 1..n : CharAt(a, i) # CharAt(b, i) }
    IN IF diff = {} THEN Len(a) < Len(b)
       ELSE LET d == CHOOSE i \in diff : \A j \in diff : i <= j
            IN Ord(CharAt(a, d)) < Ord(CharAt(b, d))

\* str(n) for n >= 0
RECURSIVE int_to_str(_)
int_to_str(n) ==
    IF n < 10 THEN CharAt(DigitChars, n + 1)
    ELSE int_to_str(n \div 10) \o CharAt(DigitChars, (n % 10) + 1)

\* re.sub(r'[^a-zA-Z0-9_]', '_', s)
RECURSIVE sub_non_word(_)
sub_non_word(s) ==
    IF Len(s) = 0 THEN ""
    ELSE (IF IsWordChar(CharAt(s, 1)) THEN CharAt(s, 1) ELSE "_")
         \o sub_non_word(SubSeq(s, 2, Len(s)))

----------------------------------------------------------------------------
(* The name transforms *)

JAVA_KEYWORDS ==
    { "abstract", "continue", "for", "new", "switch", "assert", "default",
      "goto", "package", "synchronized", "boolean", "do", "if", "private",
      "this", "break", "double", "implements", "protected", "throw", "byte",
      "else", "import", "public", "throws", "case", "enum", "instanceof",
      "return", "transient", "catch", "extends", "int", "short", "try",
      "char", "final", "interface", "static", "void", "class", "finally",
      "long", "strictfp", "volatile", "const", "float", "native", "super",
      "while", "true", "false", "null" }

BASE_PACKAGE_NAME == "com.reeceturner.mappings"

\* to_java_identifier with the keyword test left out
to_java_identifier_no_keyword_test(name) ==
    LET sanitized == sub_non_word(name)
        prefixed  == IF Len(sanitized) > 0 /\ IsDigit(CharAt(sanitized, 1))
                     THEN "_" \o sanitized ELSE sanitized
    IN IF Len(prefixed) = 0 THEN "_" ELSE prefixed

to_java_identifier(name) ==
    IF name \in JAVA_KEYWORDS THEN name \o "_"
    ELSE LET sanitized == sub_non_word(name)
             prefixed  == IF Len(sanitized) > 0 /\ IsDigit(CharAt(sanitized, 1))
                          THEN "_" \o sanitized ELSE sanitized
         IN IF Len(prefixed) = 0 THEN "_" ELSE prefixed

\* re.sub(r'(?<=[a-z0-9])([A-Z])', r'_\1', s): an underscore before every
\* upper-case letter that follows a lower-case letter or a digit.  i is the
\* position being copied; the lookbehind reads the subject string s.
RECURSIVE sub_camel_from(_, _)
sub_camel_from(s, i) ==
    IF i > Len(s) THEN ""
    ELSE (IF /\ i > 1
             /\ IsUpper(CharAt(s, i))
             /\ (IsLower(CharAt(s, i - 1)) \/ IsDigit(CharAt(s, i - 1)))
          THEN "_" ELSE "")
         \o CharAt(s, i) \o sub_camel_from(s, i + 1)

sub_camel(s) == sub_camel_from(s, 1)

\* re.sub(r'(?<=[A-Z])([A-Z][a-z])', r'_\1', s): an underscore before every
\* upper-case letter that follows an upper-case letter and is followed by a
\* lower-case one.  Two matches never overlap: a match ends in a lower-case
\* letter, which is no lookbehind of the next.
RECURSIVE sub_acronym_from(_, _)
sub_acronym_from(s, i) ==
    IF i > Len(s) THEN ""
    ELSE (IF /\ i > 1 /\ i < Len(s)
             /\ IsUpper(CharAt(s, i))
             /\ IsUpper(CharAt(s, i - 1))
             /\ IsLower(CharAt(s, i + 1))
          THEN "_" ELSE "")
         \o CharAt(s, i) \o sub_acronym_from(s, i + 1)

sub_acronym(s) == sub_acronym_from(s, 1)

\* to_java_constant_name with the second substitution left out
to_java_constant_name_no_acronym(name) ==
    IF name = "<init>" THEN "INIT"
    ELSE IF name = "<clinit>" THEN "CLINIT"
    ELSE LET upper_name == upper(sub_non_word(sub_camel(name)))
         IN IF Len(upper_name) > 0 /\ IsDigit(CharAt(upper_name, 1))
            THEN "_" \o upper_name ELSE upper_name

to_java_constant_name(name) ==
    IF name = "<init>" THEN "INIT"
    ELSE IF name = "<clinit>" THEN "CLINIT"
    ELSE LET upper_name == upper(sub_non_word(sub_acronym(sub_camel(name))))
         IN IF Len(upper_name) > 0 /\ IsDigit(CharAt(upper_name, 1))
            THEN "_" \o upper_name ELSE upper_name

\* "_".join(filter(None, parts)) over the parameter types, each passed through
\* strip, split('.')[-1], the three replace calls and to_java_constant_name
RECURSIVE join_params(_)
join_params(params) ==
    IF Len(params) = 0 THEN ""
    ELSE LET simple_type == replace(replace(replace(last_part(strip(Head(params)), "."),
                                                    "[]", "_ARRAY"), "<", "_"), ">", "")
             part == to_java_constant_name(simple_type)
             rest == join_params(Tail(params))
         IN IF part = "" THEN rest
            ELSE IF rest = "" THEN part
            ELSE part \o "_" \o rest

\* get_method_params_suffix that never finds parameters
get_method_params_suffix_none(signature) == ""

\* re.search(r'\((.*)\)', signature): the leftmost "(" with a ")" after it,
\* and, the star being greedy, the last ")" of the string.
get_method_params_suffix(signature) ==
    LET open  == find(signature, "(")
        close == rfind(signature, ")")
    IN IF open = 0 \/ close < open THEN ""
       ELSE LET group == SubSeq(signature, open + 1, close - 1)
            IN IF group = "" THEN ""
               ELSE "_" \o join_params(split(group, ","))

----------------------------------------------------------------------------
(* The parse loop of main() *)

\* mappings is a dict in insertion order: a sequence of entries, one per name.
\* A field is [obf, named], a method [obf, named, signature]; each also carries
\* line, the index of the input line it was parsed from (history only: no
\* definition of the program reads it).
class_names(maps) == { maps[i].name : i \in 1..Len(maps) }

class_index(maps, name) == CHOOSE i \in 1..Len(maps) : maps[i].name = name

\* mappings[name]['obf'] = obf on the defaultdict
set_obf(maps, name, obf) ==
    IF name \in class_names(maps)
    THEN [maps EXCEPT ![class_index(maps, name)].obf = obf]
    ELSE Append(maps, [name |-> name, obf |-> obf, fields |-> <<>>, methods |-> <<>>])

\* mappings[name]['fields'].append(field)
add_field(maps, name, field) ==
    LET m == IF name \in class_names(maps) THEN maps ELSE set_obf(maps, name, "")
        i == class_index(m, name)
    IN [m EXCEPT ![i].fields = Append(@, field)]

\* mappings[name]['methods'].append(method)
add_method(maps, name, method) ==
    LET m == IF name \in class_names(maps) THEN maps ELSE set_obf(maps, name, "")
        i == class_index(m, name)
    IN [m EXCEPT ![i].methods = Append(@, method)]

\* method_re.search(definition_part) for method_re = (\S+)\s*\( : <<group(1)>>,
\* or <<>> for no match.  The match starts at the leftmost position that can
\* start one, and \S+ then keeps as much as still lets \s*\( follow.
method_re_search(s) ==
    LET n == Len(s)
        ends == { k \in 1..(n - 1) :
                    /\ ~IsSpace(CharAt(s, k))
                    /\ \E m \in (k + 1)..n :
                          /\ CharAt(s, m) = "("
                          /\ \A j \in (k + 1)..(m - 1) : IsSpace(CharAt(s, j)) }
        run_start(k) == CHOOSE i \in 1..k :
                            /\ \A j \in i..k : ~IsSpace(CharAt(s, j))
                            /\ (i = 1 \/ IsSpace(CharAt(s, i - 1)))
    IN IF ends = {} THEN <<>>
       ELSE LET k1 == CHOOSE k \in ends : \A j \in ends : k <= j
                i0 == run_start(k1)
                same == { k \in ends : run_start(k) = i0 }
                k0 == CHOOSE k \in same : \A j \in same : k >= j
            IN <<SubSeq(s, i0, k0)>>

\* the number of leading digits of s from position i on
RECURSIVE digit_run(_, _)
digit_run(s, i) ==
    IF i <= Len(s) /\ IsDigit(CharAt(s, i)) THEN 1 + digit_run(s, i + 1) ELSE 0

\* line_number_re.sub('', s) for line_number_re = ^\d+:\d+:
strip_line_numbers(s) ==
    LET d1 == digit_run(s, 1)
        d2 == digit_run(s, d1 + 2)
    IN IF /\ d1 > 0
          /\ CharAt(s, d1 + 1) = ":"
          /\ d2 > 0
          /\ CharAt(s, d1 + d2 + 2) = ":"
       THEN SubSeq(s, d1 + d2 + 3, Len(s))
       ELSE s

\* parse_header that forgets the current class on a header it cannot split
parse_header_forgetting(cur, maps, stripped_line) ==
    LET parts == split(rstrip_colon(stripped_line), " -> ")
    IN IF Len(parts) = 2
       THEN [current |-> parts[1], maps |-> set_obf(maps, parts[1], parts[2])]
       ELSE [current |-> "", maps |-> maps]

\* the branch of a line whose stripped form ends with ":"
parse_header(cur, maps, stripped_line) ==
    LET parts == split(rstrip_colon(stripped_line), " -> ")
    IN IF Len(parts) = 2
       THEN [current |-> parts[1], maps |-> set_obf(maps, parts[1], parts[2])]
       ELSE [current |-> cur, maps |-> maps]

\* the test that makes a line a member line
is_member_line(line, cur) ==
    /\ startswith(line, "    ")
    /\ contains(line, " -> ")
    /\ cur # ""

\* the branch of a member line.  The tuple assignment
\*     member_line, obf_name = stripped_line.split(" -> ", 1)
\* raises ValueError when the split yields one part.
parse_member(cur, maps, stripped_line, lineno) ==
    LET halves == split_once(stripped_line, " -> ")
    IN IF Len(halves) # 2 THEN [raised |-> TRUE, maps |-> maps]
       ELSE LET definition_part == strip(halves[1])
                obf_name == halves[2]
            IN IF contains(definition_part, "(")
               THEN LET match == method_re_search(definition_part)
                    IN IF match # <<>>
                       THEN [raised |-> FALSE,
                             maps |-> add_method(maps, cur,
                                        [obf |-> obf_name,
                                         named |-> last_part(match[1], "."),
                                         signature |-> strip_line_numbers(definition_part),
                                         line |-> lineno])]
                       ELSE [raised |-> FALSE, maps |-> maps]
               ELSE [raised |-> FALSE,
                     maps |-> add_field(maps, cur,
                                [obf |-> obf_name,
                                 named |-> last_part(definition_part, " "),
                                 line |-> lineno])]

\* one iteration of "for line in f"
parse_line(cur, maps, line, lineno) ==
    LET stripped_line == strip(line)
    IN IF stripped_line = "" \/ startswith(stripped_line, "#")
       THEN [raised |-> FALSE, current |-> cur, maps |-> maps]
       ELSE IF endswith(stripped_line, ":")
       THEN LET h == parse_header(cur, maps, stripped_line)
            IN [raised |-> FALSE, current |-> h.current, maps |-> h.maps]
       ELSE IF is_member_line(line, cur)
       THEN LET m == parse_member(cur, maps, stripped_line, lineno)
            IN [raised |-> m.raised, current |-> cur, maps |-> m.maps]
       ELSE [raised |-> FALSE, current |-> cur, maps |-> maps]

----------------------------------------------------------------------------
(* The generation loop of main() *)

\* sorted(xs, key=...) is stable: x goes before the first element that is
\* greater than it, so behind every element with an equal key.  later holds
\* the positions of the elements of xs that are greater than x.
insert_sorted(xs, x, later) ==
    LET at == IF later = {} THEN Len(xs) + 1
              ELSE CHOOSE j \in later : \A k \in later : j <= k
    IN SubSeq(xs, 1, at - 1) \o <<x>> \o SubSeq(xs, at, Len(xs))

\* key=lambda x: x['named']
field_before(a, b) == str_less(a.named, b.named)

\* key=lambda x: (x['named'], x['signature'])
method_before(a, b) ==
    \/ str_less(a.named, b.named)
    \/ a.named = b.named /\ str_less(a.signature, b.signature)

\* sorted(mappings.items()): the names are distinct, so they alone decide
class_before(a, b) == str_less(a.name, b.name)

\* the fields in the order parsed, not sorted
sorted_fields_unsorted(fields) == fields

RECURSIVE sorted_fields(_)
sorted_fields(fields) ==
    IF Len(fields) = 0 THEN <<>>
    ELSE LET front == sorted_fields(SubSeq(fields, 1, Len(fields) - 1))
             x == fields[Len(fields)]
         IN insert_sorted(front, x, { j \in 1..Len(front) : field_before(x, front[j]) })

RECURSIVE sorted_methods(_)
sorted_methods(methods) ==
    IF Len(methods) = 0 THEN <<>>
    ELSE LET front == sorted_methods(SubSeq(methods, 1, Len(methods) - 1))
             x == methods[Len(methods)]
         IN insert_sorted(front, x, { j \in 1..Len(front) : method_before(x, front[j]) })

RECURSIVE sorted_classes(_)
sorted_classes(maps) ==
    IF Len(maps) = 0 THEN <<>>
    ELSE LET front == sorted_classes(SubSeq(maps, 1, Len(maps) - 1))
             x == maps[Len(maps)]
         IN insert_sorted(front, x, { j \in 1..Len(front) : class_before(x, front[j]) })

\* the while loop: base_2, base_3, ... until a name is free
RECURSIVE next_free(_, _, _)
next_free(base_const_name, counter, declared) ==
    LET const_name == base_const_name \o "_" \o int_to_str(counter)
    IN IF const_name \in declared
       THEN next_free(base_const_name, counter + 1, declared)
       ELSE const_name

\* unique_name that tries the suffix _2 once and does not look further
unique_name_one_try(base_const_name, declared) ==
    IF base_const_name \in declared THEN base_const_name \o "_2" ELSE base_const_name

\* unique_name that appends a counter before it looks at the bare name
unique_name_never_bare(base_const_name, declared) ==
    next_free(base_const_name, 2, declared)

\* const_name as the loop leaves it
unique_name(base_const_name, declared) ==
    IF base_const_name \in declared
    THEN next_free(base_const_name, 2, declared)
    ELSE base_const_name

\* The Fields loop over the sorted fields.  An emitted constant is const with
\* the value obf; base (the candidate name) and line are history.
RECURSIVE emit_fields(_, _)
emit_fields(fields, declared_fields) ==
    IF Len(fields) = 0 THEN <<>>
    ELSE LET field == Head(fields)
             base_const_name == to_java_constant_name(field.named)
         IN IF base_const_name = ""
            THEN emit_fields(Tail(fields), declared_fields)
            ELSE LET const_name == unique_name(base_const_name, declared_fields)
                 IN <<[const |-> const_name, obf |-> field.obf,
                       base |-> base_const_name, line |-> field.line]>>
                    \o emit_fields(Tail(fields), declared_fields \cup {const_name})

\* The Methods loop over the sorted methods.
RECURSIVE emit_methods(_, _)
emit_methods(methods, declared_methods) ==
    IF Len(methods) = 0 THEN <<>>
    ELSE LET method == Head(methods)
             const_name_base == to_java_constant_name(method.named)
         IN IF const_name_base = ""
            THEN emit_methods(Tail(methods), declared_methods)
            ELSE LET suffix == get_method_params_suffix(method.signature)
                     base_const_name == const_name_base \o suffix
                     const_name == unique_name(base_const_name, declared_methods)
                 IN <<[const |-> const_name, obf |-> method.obf,
                       base |-> base_const_name, line |-> method.line]>>
                    \o emit_methods(Tail(methods), declared_methods \cup {const_name})

RECURSIVE sanitize_parts(_)
sanitize_parts(raw_parts) ==
    IF Len(raw_parts) = 0 THEN <<>>
    ELSE <<to_java_identifier(Head(raw_parts))>> \o sanitize_parts(Tail(raw_parts))

\* [p for p in BASE_PACKAGE_NAME.split('.') if p]
base_package_parts == SelectSeq(split(BASE_PACKAGE_NAME, "."), LAMBDA p : p # "")

\* full_package_parts: the directory of the class below the output root
output_dir_for_class(original_name) ==
    LET sanitized_parts == sanitize_parts(split(replace(original_name, "$", "_"), "."))
    IN base_package_parts \o SubSeq(sanitized_parts, 1, Len(sanitized_parts) - 1)

simple_class_name(original_name) ==
    LET sanitized_parts == sanitize_parts(split(replace(original_name, "$", "_"), "."))
    IN sanitized_parts[Len(sanitized_parts)]

output_file_path(original_name) ==
    output_dir_for_class(original_name) \o <<simple_class_name(original_name) \o ".java">>

\* what the file of a class holds
class_record(info) ==
    [original |-> info.name,
     obf      |-> info.obf,
     fields   |-> emit_fields(sorted_fields(info.fields), {}),
     methods  |-> emit_methods(sorted_methods(info.methods), {})]

\* os.makedirs(dir, exist_ok=True): the directory and all above it
makedirs(dirs, dir) == dirs \cup { SubSeq(dir, 1, k) : k \in 1..Len(dir) }

\* open(path, "w") and write: a file already at the path is replaced
write_file(files, path, text) ==
    { f \in files : f.path # path } \cup { [path |-> path, content |-> text] }

----------------------------------------------------------------------------
(* The inputs of a run *)

\* the sequences over S of length at most n
SeqsUpTo(S, n) == UNION { [1..k -> S] : k \in 0..n }

\* Lines of every kind the parse loop tells apart (the comment also looks
\* like a class header).
ParseLines ==
    { "a.b$C -> x:",
      "a.b_C -> y:",
      "a -> b -> c:",
      "",
      "# a -> b:",
      "    int f -> g",
      "    1:2:void m(int) -> h",
      "    int f -> ",
      "     -> x",
      "    int a -> b -> c",
      "int q -> r",
      "    (x -> y" }

\* Member lines: equal names, names that differ in case only, overloads, a
\* name that already ends in a counter, a method without a name; and the
\* header of a second class.
MemberLines ==
    { "    int bar -> y",
      "    long bar -> y2",
      "    int bar_2 -> r",
      "    int Count -> a",
      "    int count -> b",
      "    void baz() -> z",
      "    void baz(int) -> z2",
      "    void Baz(int) -> w",
      "    void foo.() -> d",
      "a.b.Bar -> v:" }

FooHeader == "a.b.Foo -> x:"

\* an output root left by an earlier run
StaleDirs == makedirs({}, base_package_parts \o <<"old">>)

StaleFiles ==
    { [path |-> base_package_parts \o <<"old", "Gone.java">>,
       content |-> [original |-> "old.Gone", obf |-> "q",
                    fields |-> <<>>, methods |-> <<>>]] }

\* the characters the sanitizer is tried on
IdChars == { "d", "o", "A", "1", "_", "-", "$" }

RECURSIVE StringsUpTo(_, _)
StringsUpTo(C, n) ==
    IF n = 0 THEN { "" }
    ELSE LET shorter == StringsUpTo(C, n - 1)
         IN shorter \cup { s \o c : s \in shorter, c \in C }

\* the characters the constant naming is tried on: a lower-case letter, two
\* upper-case letters, a digit, the underscore and two other characters
ConstChars == { "g", "F", "B", "1", "_", "<", ">" }

\* the names of the constructor and of the static initializer, and two
\* names in camel case, one of them with an acronym
ConstNames == { "<init>", "<clinit>", "getFooBar", "HTTPServer" }

----------------------------------------------------------------------------
(* main() *)

InitWith(files) ==
    /\ pc = "start"
    /\ input_exists \in BOOLEAN
    /\ content \in files
    /\ idx = 1
    /\ current_class_name = ""
    /\ mappings = <<>>
    /\ out_exists \in BOOLEAN
    /\ out_dirs = (IF out_exists THEN StaleDirs ELSE {})
    /\ out_files = (IF out_exists THEN StaleFiles ELSE {})
    /\ class_idx = 1
    /\ file_count = 0
    /\ id_in = ""
    /\ id_out = ""

Init == InitWith(SeqsUpTo(ParseLines, MaxLines))

InitGen == InitWith({ <<FooHeader>> \o t : t \in SeqsUpTo(MemberLines, MaxMembers) })

\* os.path.exists(INPUT_FILE)
InputPresent ==
    /\ pc = "start"
    /\ input_exists
    /\ pc' = "parse"
    /\ UNCHANGED <<input_exists, content, idx, current_class_name, mappings,
                   out_exists, out_dirs, out_files, class_idx, file_count,
                   id_in, id_out>>

\* urlretrieve writes INPUT_FILE
DownloadOk ==
    /\ pc = "start"
    /\ ~input_exists
    /\ input_exists' = TRUE
    /\ pc' = "parse"
    /\ UNCHANGED <<content, idx, current_class_name, mappings,
                   out_exists, out_dirs, out_files, class_idx, file_count,
                   id_in, id_out>>

\* DownloadFail that clears the output root before it gives up
DownloadFailCleaning ==
    /\ pc = "start"
    /\ ~input_exists
    /\ input_exists' \in BOOLEAN
    /\ pc' = "exit"
    /\ out_exists' = FALSE
    /\ out_dirs' = {}
    /\ out_files' = {}
    /\ UNCHANGED <<content, idx, current_class_name, mappings,
                   class_idx, file_count, id_in, id_out>>

\* urlretrieve raises: sys.exit.  It raises before it has opened INPUT_FILE
\* (no such URL, no connection) or after (the transfer ends short), and in
\* the second case the file it has begun stays behind.
DownloadFail ==
    /\ pc = "start"
    /\ ~input_exists
    /\ input_exists' \in BOOLEAN
    /\ pc' = "exit"
    /\ UNCHANGED <<content, idx, current_class_name, mappings,
                   out_exists, out_dirs, out_files, class_idx, file_count,
                   id_in, id_out>>

\* one line of the input; a ValueError ends the run with a traceback
ParseLine ==
    /\ pc = "parse"
    /\ idx <= Len(content)
    /\ LET r == parse_line(current_class_name, mappings, content[idx], idx)
       IN IF r.raised
          THEN /\ pc' = "crashed"
               /\ UNCHANGED <<idx, current_class_name, mappings>>
          ELSE /\ pc' = pc
               /\ idx' = idx + 1
               /\ current_class_name' = r.current
               /\ mappings' = r.maps
    /\ UNCHANGED <<input_exists, content, out_exists, out_dirs, out_files,
                   class_idx, file_count, id_in, id_out>>

\* end of input: shutil.rmtree(OUTPUT_ROOT_DIR) if it exists; file_count = 0
CleanOutput ==
    /\ pc = "parse"
    /\ idx > Len(content)
    /\ pc' = "generate"
    /\ out_exists' = FALSE
    /\ out_dirs' = (IF out_exists THEN {} ELSE out_dirs)
    /\ out_files' = (IF out_exists THEN {} ELSE out_files)
    /\ class_idx' = 1
    /\ file_count' = 0
    /\ UNCHANGED <<input_exists, content, idx, current_class_name, mappings,
                   id_in, id_out>>

\* one class of sorted(mappings.items()): its directory and its file
GenerateClass ==
    /\ pc = "generate"
    /\ class_idx <= Len(mappings)
    /\ LET info == sorted_classes(mappings)[class_idx]
       IN /\ out_dirs' = makedirs(out_dirs, output_dir_for_class(info.name))
          /\ out_files' = write_file(out_files, output_file_path(info.name),
                                     class_record(info))
    /\ out_exists' = TRUE
    /\ file_count' = file_count + 1
    /\ class_idx' = class_idx + 1
    /\ UNCHANGED <<pc, input_exists, content, idx, current_class_name, mappings,
                   id_in, id_out>>

\* the loop is over: "Done! Generated ..."
Finish ==
    /\ pc = "generate"
    /\ class_idx > Len(mappings)
    /\ pc' = "done"
    /\ UNCHANGED <<input_exists, content, idx, current_class_name, mappings,
                   out_exists, out_dirs, out_files, class_idx, file_count,
                   id_in, id_out>>

Next ==
    \/ InputPresent
    \/ DownloadOk
    \/ DownloadFail
    \/ ParseLine
    \/ CleanOutput
    \/ GenerateClass
    \/ Finish

Spec == Init /\ [][Next]_vars

SpecGen == InitGen /\ [][Next]_vars

----------------------------------------------------------------------------
(* to_java_identifier alone *)

InitIdent ==
    /\ pc = "ident"
    /\ id_in \in StringsUpTo(IdChars, MaxIdLen) \cup JAVA_KEYWORDS
    /\ id_out = ""
    /\ input_exists = TRUE
    /\ content = <<>>
    /\ idx = 1
    /\ current_class_name = ""
    /\ mappings = <<>>
    /\ out_exists = FALSE
    /\ out_dirs = {}
    /\ out_files = {}
    /\ class_idx = 1
    /\ file_count = 0

Sanitize ==
    /\ pc = "ident"
    /\ id_out' = to_java_identifier(id_in)
    /\ pc' = "ident_done"
    /\ UNCHANGED <<id_in, input_exists, content, idx, current_class_name, mappings,
                   out_exists, out_dirs, out_files, class_idx, file_count>>

NextIdent == Sanitize

SpecIdent == InitIdent /\ [][NextIdent]_vars

----------------------------------------------------------------------------
(* to_java_constant_name alone *)

InitConst ==
    /\ pc = "const"
    /\ id_in \in StringsUpTo(ConstChars, MaxConstLen) \cup ConstNames
    /\ id_out = ""
    /\ input_exists = TRUE
    /\ content = <<>>
    /\ idx = 1
    /\ current_class_name = ""
    /\ mappings = <<>>
    /\ out_exists = FALSE
    /\ out_dirs = {}
    /\ out_files = {}
    /\ class_idx = 1
    /\ file_count = 0

ConstantName ==
    /\ pc = "const"
    /\ id_out' = to_java_constant_name(id_in)
    /\ pc' = "const_done"
    /\ UNCHANGED <<id_in, input_exists, content, idx, current_class_name, mappings,
                   out_exists, out_dirs, out_files, class_idx, file_count>>

NextConst == ConstantName

SpecConst == InitConst /\ [][NextConst]_vars

----------------------------------------------------------------------------
(* Properties *)

\* the [const, obf, base, line] lists of every file written by this run
written_lists ==
    { f.content.fields : f \in out_files } \cup { f.content.methods : f \in out_files }

\* C1: within one class and one category the emitted constant names are
\* pairwise distinct, and each is the candidate itself when no earlier member
\* of the list took it, and otherwise candidate_n for the least n >= 2 that
\* no earlier member took.
C1_EmittedNamesDistinct ==
    \A L \in written_lists :
        /\ \A i, j \in 1..Len(L) : i # j => L[i].const # L[j].const
        /\ \A i \in 1..Len(L) :
              LET prior == { L[j].const : j \in 1..(i - 1) }
                  numbered(n) == L[i].base \o "_" \o int_to_str(n)
              IN IF L[i].base \notin prior
                 THEN L[i].const = L[i].base
                 ELSE \E n \in 2..(i + 1) :
                         /\ L[i].const = numbered(n)
                         /\ \A m \in 2..(n - 1) : numbered(m) \in prior

\* C1 witness: a class file whose third field had to skip _2 as well
C1_Witness ==
    \E f \in out_files :
        /\ Len(f.content.fields) = 3
        /\ f.content.fields[3].const = f.content.fields[3].base \o "_3"

\* the parsed entry of the class a file was written for
info_of(f) == mappings[class_index(mappings, f.content.original)]

\* C2 as claimed: every member of a category yields an output name (empty
\* candidates included), and the first occurrence of a candidate value is
\* emitted unchanged.
C2_Original ==
    pc = "done" =>
        \A f \in out_files :
            /\ Len(f.content.fields) = Len(info_of(f).fields)
            /\ Len(f.content.methods) = Len(info_of(f).methods)
            /\ \A L \in { f.content.fields, f.content.methods } :
                  \A i \in 1..Len(L) :
                      (\A j \in 1..(i - 1) : L[j].base # L[i].base)
                          => L[i].const = L[i].base

\* C2 amended: a category yields one output name per member whose constant
\* base name is not empty (the others are skipped), and the first occurrence
\* of a candidate value is emitted unchanged unless an earlier member of the
\* list was already emitted under that name.
C2_SameLengthFirstUnchanged ==
    pc = "done" =>
        \A f \in out_files :
            /\ Len(f.content.fields) =
                  Cardinality({ i \in 1..Len(info_of(f).fields) :
                                  to_java_constant_name(info_of(f).fields[i].named) # "" })
            /\ Len(f.content.methods) =
                  Cardinality({ i \in 1..Len(info_of(f).methods) :
                                  to_java_constant_name(info_of(f).methods[i].named) # "" })
            /\ \A L \in { f.content.fields, f.content.methods } :
                  \A i \in 1..Len(L) :
                      (\A j \in 1..(i - 1) : L[j].base # L[i].base /\ L[j].const # L[i].base)
                          => L[i].const = L[i].base

\* C2 witness: three fields, the third a first occurrence of its candidate
\* that an earlier field already holds as its numbered name
C2_Witness ==
    /\ pc = "done"
    /\ \E f \in out_files :
          /\ Len(f.content.fields) = 3
          /\ f.content.fields[3].base # f.content.fields[1].base
          /\ f.content.fields[3].base # f.content.fields[2].base
          /\ f.content.fields[3].base = f.content.fields[2].const

\* C3 as claimed: no input line makes the parse loop raise.
C3_ParseNeverRaises == pc # "crashed"

\* every parsed member, with the class it is recorded in
recorded_members ==
    UNION { { [class |-> mappings[i].name, member |-> mappings[i].fields[k], kind |-> "field"] :
                k \in 1..Len(mappings[i].fields) }
            \cup
            { [class |-> mappings[i].name, member |-> mappings[i].methods[k], kind |-> "method"] :
                k \in 1..Len(mappings[i].methods) } : i \in 1..Len(mappings) }

\* C4 as claimed: the obfuscated name of a recorded member is what follows
\* the last " -> " of its line, and a field is named by the last word of what
\* precedes that " -> ".
C4_SplitOnLastArrow ==
    \A r \in recorded_members :
        LET text == strip(content[r.member.line])
            at == rfind(text, " -> ")
        IN /\ r.member.obf = SubSeq(text, at + 4, Len(text))
           /\ r.kind = "field" =>
                 r.member.named = last_part(strip(SubSeq(text, 1, at - 1)), " ")

\* a valid class header: not blank, not a comment, ends with ":" and splits
\* into exactly two parts
is_valid_header(line) ==
    LET t == strip(line)
    IN /\ t # ""
       /\ ~startswith(t, "#")
       /\ endswith(t, ":")
       /\ Len(split(rstrip_colon(t), " -> ")) = 2

\* the class named by the last valid header among lines 1..n-1 ("" if none)
owner_before(n) ==
    LET hs == { k \in 1..(n - 1) : is_valid_header(content[k]) }
    IN IF hs = {} THEN ""
       ELSE LET last == CHOOSE k \in hs : \A j \in hs : k >= j
            IN split(rstrip_colon(strip(content[last])), " -> ")[1]

\* C5: every recorded member is in the list of the class named by the last
\* valid header before its line and in no other list, no line is recorded
\* twice, and the current class is the one named by the last valid header read
\* (a header-like line that does not split in two changes nothing).
C5_MemberOwnedByLastHeader ==
    /\ current_class_name = owner_before(idx)
    /\ \A r \in recorded_members :
          r.class # "" /\ r.class = owner_before(r.member.line)
    /\ \A r1, r2 \in recorded_members :
          r1.member.line = r2.member.line => r1 = r2
    /\ \A i, j \in 1..Len(mappings) : mappings[i].name = mappings[j].name => i = j

\* C5 witness: a member recorded after a header-like line that is no header
C5_Witness ==
    \E r \in recorded_members :
        /\ r.member.line = 3
        /\ content[1] = "a.b$C -> x:"
        /\ content[2] = "a -> b -> c:"
        /\ r.class = "a.b$C"

\* C6: to_java_identifier returns a non-empty string over [A-Za-z0-9_] that
\* does not start with a digit and is no keyword; a keyword k gives k_.
C6_IdentifierValid ==
    pc = "ident_done" =>
        /\ id_out # ""
        /\ \A c \in CharsOf(id_out) : IsWordChar(c)
        /\ ~IsDigit(CharAt(id_out, 1))
        /\ id_out \notin JAVA_KEYWORDS
        /\ id_in \in JAVA_KEYWORDS => id_out = id_in \o "_"

\* C6 witness: the sanitizer has run on a keyword
C6_Witness == pc = "ident_done" /\ id_in = "do" /\ id_out = "do_"

\* C7 as claimed: after the run there is one file per class of the table.
C7_OneFilePerClass ==
    pc = "done" => Cardinality(out_files) = Len(mappings)

\* C8: a failed download ends the run at once, nothing parsed and the output
\* root as it was; the output root is removed only by the step that follows
\* the last input line, and files appear only after it.
C8_FailedAcquisitionLeavesOutput ==
    [][ /\ pc # "exit"
        /\ pc' = "exit" =>
              /\ pc = "start" /\ ~input_exists
              /\ mappings' = <<>> /\ idx' = 1
              /\ UNCHANGED <<out_exists, out_dirs, out_files>>
        /\ (out_exists /\ ~out_exists') =>
              /\ input_exists
              /\ pc = "parse" /\ idx > Len(content)
              /\ pc' = "generate" /\ out_files' = {} /\ file_count' = 0
        /\ <<out_exists, out_dirs, out_files>>' # <<out_exists, out_dirs, out_files>> =>
              pc' = "generate"
      ]_vars

\* C8 witness: the run has ended on a download that failed midway, the
\* unfinished input file left behind and the old output there
C8_Witness ==
    pc = "exit" /\ input_exists /\ out_exists /\ out_files = StaleFiles

\* the input of the end-to-end scenario
FooExample ==
    <<FooHeader, "    int bar -> y", "    void baz() -> z", "    void baz(int) -> z2">>

\* the [const, obf] pairs of an emitted list
pairs(L) == [i \in 1..Len(L) |-> <<L[i].const, L[i].obf>>]

\* the scenario's result: one class a.b.Foo, obfuscated x, BAR = y, BAZ = z,
\* BAZ_INT = z2
FooExampleHolds ==
    (pc = "done" /\ content = FooExample) =>
        /\ Len(mappings) = 1
        /\ Cardinality(out_files) = 1
        /\ \A f \in out_files :
              /\ f.content.original = "a.b.Foo"
              /\ f.content.obf = "x"
              /\ pairs(f.content.fields) = << <<"BAR", "y">> >>
              /\ pairs(f.content.methods) = << <<"BAZ", "z">>, <<"BAZ_INT", "z2">> >>

\* the parsed method an emitted constant stands for
method_of(f, e) ==
    CHOOSE m \in { info_of(f).methods[k] : k \in 1..Len(info_of(f).methods) } :
        m.line = e.line

\* C9 as claimed: the scenario holds, and two or more overloads of one method
\* name whose suffixes differ pairwise get base name plus suffix with no
\* counter, the one without parameters the bare base name.
C9_Original ==
    /\ FooExampleHolds
    /\ pc = "done" =>
          \A f \in out_files :
              LET M == f.content.methods
              IN \A i \in 1..Len(M) :
                    LET same == { j \in 1..Len(M) :
                                    method_of(f, M[j]).named = method_of(f, M[i]).named }
                    IN (/\ Cardinality(same) >= 2
                        /\ \A j, k \in same : j # k => M[j].base # M[k].base)
                       => /\ M[i].const = M[i].base
                          /\ get_method_params_suffix(method_of(f, M[i]).signature) = ""
                                => M[i].const = to_java_constant_name(method_of(f, M[i]).named)

\* C9 amended: the scenario holds, and when the candidates (base name plus
\* suffix) of all methods of a class differ pairwise, as they do for overloads
\* of one name with different suffixes when no method of another name yields
\* the same candidate, each method gets its candidate with no counter, the one
\* without parameters (nothing between the first "(" and the last ")" of its
\* signature) the bare base name.
C9_EndToEnd ==
    /\ FooExampleHolds
    /\ pc = "done" =>
          \A f \in out_files :
              LET M == f.content.methods
              IN (\A j, k \in 1..Len(M) : j # k => M[j].base # M[k].base)
                 => \A i \in 1..Len(M) :
                       /\ M[i].const = M[i].base
                       /\ M[i].const = to_java_constant_name(method_of(f, M[i]).named)
                                       \o get_method_params_suffix(method_of(f, M[i]).signature)
                       /\ (LET sig == method_of(f, M[i]).signature
                           IN find(sig, "(") > 0 /\ rfind(sig, ")") = find(sig, "(") + 1)
                             => M[i].const = to_java_constant_name(method_of(f, M[i]).named)

\* C9 witness: the scenario's run is over
C9_Witness ==
    /\ pc = "done"
    /\ content = FooExample
    /\ \E f \in out_files : Len(f.content.methods) = 2

\* the permutations of a sequence
perms(xs) ==
    { [i \in 1..Len(xs) |-> xs[p[i]]] :
        p \in { q \in [1..Len(xs) -> 1..Len(xs)] :
                  \A i, j \in 1..Len(xs) : q[i] = q[j] => i = j } }

\* the parsed field an emitted constant stands for
field_of(f, e) ==
    CHOOSE m \in { info_of(f).fields[k] : k \in 1..Len(info_of(f).fields) } :
        m.line = e.line

\* of two members with one candidate the earlier keeps it, the later gets _2
two_collide(L) ==
    \A i, j \in 1..Len(L) :
        (i < j /\ L[i].base = L[j].base)
            => L[i].const = L[i].base /\ L[j].const = L[j].base \o "_2"

\* the fields Count and count of one class, in either input order
count_example ==
    (pc = "done" /\ content \in { <<FooHeader, "    int Count -> a", "    int count -> b">>,
                                  <<FooHeader, "    int count -> b", "    int Count -> a">> })
        => \A f \in out_files :
              pairs(f.content.fields) = << <<"COUNT", "a">>, <<"COUNT_2", "b">> >>

\* C10 as claimed: what is emitted for a class does not depend on the order
\* of its members in the input, and of two members of one category with one
\* candidate the earlier keeps it and the later gets _2.
C10_Original ==
    /\ count_example
    /\ pc = "done" =>
          \A f \in out_files :
              /\ \A fs \in perms(info_of(f).fields) :
                    pairs(emit_fields(sorted_fields(fs), {})) = pairs(f.content.fields)
              /\ \A ms \in perms(info_of(f).methods) :
                    pairs(emit_methods(sorted_methods(ms), {})) = pairs(f.content.methods)
              /\ two_collide(f.content.fields)
              /\ two_collide(f.content.methods)

\* C10 amended: classes are visited in the order of their original names,
\* fields are emitted in the order of their names and methods in the order of
\* (name, signature); members with equal keys keep their input order, so only
\* among them does the input order matter.  Of two colliding members that are
\* the only members of their category, the earlier in that order keeps the
\* candidate and the later gets _2.
C10_SortedStableOrder ==
    /\ count_example
    /\ pc = "generate" =>
          \A i \in 1..Len(mappings) :
              (\E f \in out_files : f.content.original = sorted_classes(mappings)[i].name)
                  <=> i < class_idx
    /\ \A i, j \in 1..Len(mappings) :
          i < j => str_less(sorted_classes(mappings)[i].name, sorted_classes(mappings)[j].name)
    /\ \A f \in out_files :
          /\ \A i, j \in 1..Len(f.content.fields) :
                LET a == field_of(f, f.content.fields[i])
                    b == field_of(f, f.content.fields[j])
                IN i < j => \/ str_less(a.named, b.named)
                            \/ a.named = b.named /\ a.line < b.line
          /\ \A i, j \in 1..Len(f.content.methods) :
                LET a == method_of(f, f.content.methods[i])
                    b == method_of(f, f.content.methods[j])
                IN i < j => \/ str_less(a.named, b.named)
                            \/ a.named = b.named /\ str_less(a.signature, b.signature)
                            \/ a.named = b.named /\ a.signature = b.signature /\ a.line < b.line
          /\ Len(f.content.fields) = 2 => two_collide(f.content.fields)
          /\ Len(f.content.methods) = 2 => two_collide(f.content.methods)

\* C10 witness: count was read before Count, and the run is over
C10_Witness ==
    /\ pc = "done"
    /\ content = <<FooHeader, "    int count -> b", "    int Count -> a">>
    /\ \E f \in out_files : Len(f.content.fields) = 2

\* an underscore goes before position i of s: an upper-case letter that
\* follows a lower-case letter or a digit, or that follows an upper-case
\* letter and is followed by a lower-case one
boundary_before(s, i) ==
    /\ i > 1
    /\ IsUpper(CharAt(s, i))
    /\ \/ IsLower(CharAt(s, i - 1))
       \/ IsDigit(CharAt(s, i - 1))
       \/ IsUpper(CharAt(s, i - 1)) /\ IsLower(CharAt(s, i + 1))

\* what positions 1..n of s contribute to the constant name, every position
\* judged on s itself: the underscore of a boundary, then the character in
\* upper case, or "_" in place of a character outside [A-Za-z0-9_]
RECURSIVE policy_upto(_, _)
policy_upto(s, n) ==
    IF n = 0 THEN ""
    ELSE policy_upto(s, n - 1)
         \o (IF boundary_before(s, n) THEN "_" ELSE "")
         \o (IF IsWordChar(CharAt(s, n)) THEN UpperChar(CharAt(s, n)) ELSE "_")

\* C11: to_java_constant_name returns for every name: INIT for <init> and
\* CLINIT for <clinit>; for any other name the name with an underscore before
\* each boundary, every character outside [A-Za-z0-9_] turned into "_", the
\* whole in upper case, and "_" in front if that starts with a digit.
\* getFooBar gives GET_FOO_BAR and HTTPServer gives HTTP_SERVER; the result
\* holds only [A-Z0-9_] and does not start with a digit.
C11_ConstantNamePolicy ==
    pc = "const_done" =>
        /\ id_in = "<init>" => id_out = "INIT"
        /\ id_in = "<clinit>" => id_out = "CLINIT"
        /\ id_in \notin { "<init>", "<clinit>" } =>
              LET body == policy_upto(id_in, Len(id_in))
              IN id_out = IF IsDigit(CharAt(body, 1)) THEN "_" \o body ELSE body
        /\ id_in = "getFooBar" => id_out = "GET_FOO_BAR"
        /\ id_in = "HTTPServer" => id_out = "HTTP_SERVER"
        /\ \A c \in CharsOf(id_out) : IsUpper(c) \/ IsDigit(c) \/ c = "_"
        /\ ~IsDigit(CharAt(id_out, 1))

\* C11 witness: the constant naming has run on a name with an acronym
\* boundary
C11_Witness == pc = "const_done" /\ id_in = "HTTPServer" /\ id_out = "HTTP_SERVER"

=============================================================================
